---- MODULE Spec2Model ----
(***************************************************************************)
(* Excel Color Extractor (src/main.py): the ColorExtractor pipeline        *)
(* (scan_all_matrices_in_file, process_file and their helpers) and the     *)
(* /api/process request around it.                                         *)
(*                                                                         *)
(* Text is modelled as a sequence of one-character strings, so that the    *)
(* regular expressions and the number parser of the source are computed,   *)
(* not assumed.  A character outside ASCII is written as its code point    *)
(* ("U0E2A" is THAI CHARACTER SO SUA).                                     *)
(***************************************************************************)
EXTENDS Integers, Sequences, FiniteSets, TLC

VARIABLES
    sheet_ids,           \* the uploaded workbook: per sheet, its index in SheetPool
    pc,                  \* where the /api/process request stands
    upload_file,         \* uploads/<job_id>_<filename>: "absent" or "present"
    price_file,          \* outputs/Price_<job_id>.xlsx: "absent", "partial", "written"
    type_file,           \* outputs/Type_<job_id>.xlsx: likewise
    scan_i,              \* scan_all_matrices_in_file: the next sheet (1-based)
    max_matrices,        \* scan_all_matrices_in_file: max_matrices
    all_sheet_matrices,  \* scan_all_matrices_in_file: sheet position -> inventory
    proc_i,              \* process_file: the next sheet of the main loop (1-based)
    price_rows,          \* process_file: price_rows
    type_rows,           \* process_file: type_rows
    processed_sheets,    \* process_file: processed_sheets
    skipped_sheets,      \* process_file: skipped_sheets
    response,            \* what the caller receives
    cleanup_task,        \* the background task: "none", "scheduled", "ran"
    call,                \* a helper called on its own: its arguments
    result,              \* a helper called on its own: what it returned
    jobs,                \* concurrent /api/process requests: each one's position
    uploads              \* concurrent /api/process requests: the files of UPLOAD_DIR

(***************************************************************************)
(* Characters and strings                                                  *)
(***************************************************************************)
DigitChars == <<"0", "1", "2", "3", "4", "5", "6", "7", "8", "9">>

UpperChars == <<"A", "B", "C", "D", "E", "F", "G", "H", "I", "J", "K", "L", "M",
                "N", "O", "P", "Q", "R", "S", "T", "U", "V", "W", "X", "Y", "Z">>

LowerChars == <<"a", "b", "c", "d", "e", "f", "g", "h", "i", "j", "k", "l", "m",
                "n", "o", "p", "q", "r", "s", "t", "u", "v", "w", "x", "y", "z">>

\* The Thai letters the source's literals use (all of them are \w for re).
ThaiChars == {"U0E2A", "U0E32", "U0E23", "U0E1A", "U0E31", "U0E0D",
              "U0E2B", "U0E19", "U0E0A", "U0E49", "U0E30", "U0E14"}

DigitSet == {DigitChars[i] : i \in 1..10}

DigitMap == [c \in DigitSet |-> (CHOOSE i \in 1..10 : DigitChars[i] = c) - 1]

UpperSet == {UpperChars[i] : i \in 1..26}

LowerSet == {LowerChars[i] : i \in 1..26}

LowerMap == [c \in UpperSet |-> LowerChars[CHOOSE i \in 1..26 : UpperChars[i] = c]]

UpperMap == [c \in LowerSet |-> UpperChars[CHOOSE i \in 1..26 : LowerChars[i] = c]]

WordSet == DigitSet \cup UpperSet \cup LowerSet \cup ThaiChars \cup {"_"}

IsDigit(c) == c \in DigitSet

DigitVal(c) == DigitMap[c]

\* \s of re and the whitespace of str.strip()
IsSpace(c) == c \in {" ", "\t", "\n"}

\* \w of re: letters, digits and the underscore
IsWordChar(c) == c \in WordSet

\* str.lower() / re.IGNORECASE, one character
LowerChar(c) == IF c \in UpperSet THEN LowerMap[c] ELSE c

UpperChar(c) == IF c \in LowerSet THEN UpperMap[c] ELSE c

lower(s) == [i \in 1..Len(s) |-> LowerChar(s[i])]

upper(s) == [i \in 1..Len(s) |-> UpperChar(s[i])]

RECURSIVE lstrip(_)
lstrip(s) == IF s # <<>> /\ IsSpace(s[1]) THEN lstrip(Tail(s)) ELSE s

RECURSIVE rstrip(_)
rstrip(s) == IF s # <<>> /\ IsSpace(s[Len(s)]) THEN rstrip(SubSeq(s, 1, Len(s) - 1)) ELSE s

\* str.strip(): leading and trailing whitespace removed
strip(s) == rstrip(lstrip(s))

\* str(n) of a non-negative int
RECURSIVE Digits(_)
Digits(n) == IF n < 10 THEN <<DigitChars[n + 1]>>
             ELSE Digits(n \div 10) \o <<DigitChars[(n % 10) + 1]>>

\* a digit string without its trailing zeros
RECURSIVE StripTrailingZeros(_)
StripTrailingZeros(s) ==
    IF s = <<>> THEN <<>>
    ELSE IF s[Len(s)] = "0" THEN StripTrailingZeros(SubSeq(s, 1, Len(s) - 1))
         ELSE s

(***************************************************************************)
(* Numbers.  to_number returns None, an int or a float; all three are      *)
(* records of one shape: sign, integral part and the fraction's digits     *)
(* (no trailing zero), exact for the short literals of the model.          *)
(***************************************************************************)
None == [k |-> "none", neg |-> FALSE, ip |-> <<>>, fp |-> <<>>]

\* a number: its sign, the decimal digits of its integral part (no leading
\* zero, <<"0">> for zero) and the digits of its fraction
Number(neg, ip, fp) ==
    [k |-> "num", neg |-> (neg /\ ~(ip = <<"0">> /\ fp = <<>>)), ip |-> ip, fp |-> fp]

IntNum(n) == Number(n < 0, Digits(IF n < 0 THEN -n ELSE n), <<>>)

\* float.is_integer()
is_integer(x) == x.k = "num" /\ x.fp = <<>>

\* a digit string without its leading zeros, <<"0">> for zero and for <<>>
RECURSIVE Canonical(_)
Canonical(d) ==
    IF d = <<>> THEN <<"0">>
    ELSE IF Len(d) > 1 /\ d[1] = "0" THEN Canonical(Tail(d))
    ELSE d

\* arithmetic on digit strings: d \div 2, d % 2, 2 * d + carry
RECURSIVE HalfFrom(_, _, _)
HalfFrom(d, i, carry) ==
    IF i > Len(d) THEN <<>>
    ELSE LET v == 10 * carry + DigitVal(d[i])
         IN  <<DigitChars[(v \div 2) + 1]>> \o HalfFrom(d, i + 1, v % 2)

Half(d) == Canonical(HalfFrom(d, 1, 0))

IsOdd(d) == DigitVal(d[Len(d)]) % 2 = 1

RECURSIVE DoubleFrom(_, _, _)
DoubleFrom(d, i, carry) ==
    IF i = 0 THEN (IF carry = 0 THEN <<>> ELSE <<DigitChars[carry + 1]>>)
    ELSE LET v == 2 * DigitVal(d[i]) + carry
         IN  DoubleFrom(d, i - 1, v \div 10) \o <<DigitChars[(v % 10) + 1]>>

DoublePlus(d, carry) == Canonical(DoubleFrom(d, Len(d), carry))

RECURSIVE BitLength(_)
BitLength(d) == IF d = <<"0">> THEN 0 ELSE 1 + BitLength(Half(d))

\* the significand of a double has 53 bits
MANT_DIG == 53

\* up to 15 decimal digits every integer is a double
DBL_DIG == 15

\* d shifted right by n bits, rounded half to even: guard is the last bit
\* shifted out, sticky whether any bit before it was set
RECURSIVE ShiftRightRound(_, _, _, _)
ShiftRightRound(d, n, guard, sticky) ==
    IF n = 0
    THEN (IF guard /\ (sticky \/ IsOdd(d)) THEN DoublePlus(Half(d), IF IsOdd(d) THEN 2 ELSE 1)
          ELSE d)
    ELSE ShiftRightRound(Half(d), n - 1, IsOdd(d), sticky \/ guard)

RECURSIVE ShiftLeft(_, _)
ShiftLeft(d, n) == IF n = 0 THEN d ELSE ShiftLeft(DoublePlus(d, 0), n - 1)

\* the integer d as float(d) holds it: the nearest integer with a
\* significand of MANT_DIG bits
RoundToDouble(d) ==
    IF Len(d) <= DBL_DIG THEN d
    ELSE LET shift == BitLength(d) - MANT_DIG
         IN  IF shift <= 0 THEN d
             ELSE ShiftLeft(ShiftRightRound(d, shift, FALSE, FALSE), shift)

\* ParseFloat that drops every '-' after the first character
ParseFloat_inner_minus(s) ==
    LET neg  == s # <<>> /\ s[1] = "-"
        NotMinus(c) == c # "-"
        body == SelectSeq(IF neg THEN Tail(s) ELSE s, NotMinus)
        dots == {i \in 1..Len(body) : body[i] = "."}
        dot  == IF dots = {} THEN Len(body) + 1 ELSE CHOOSE i \in dots : TRUE
        ipS  == SubSeq(body, 1, dot - 1)
        fpS  == StripTrailingZeros(SubSeq(body, dot + 1, Len(body)))
    IN  IF Cardinality(dots) > 1 \/ Len(body) = Cardinality(dots)
        THEN None
        ELSE IF fpS = <<>> THEN Number(neg, RoundToDouble(Canonical(ipS)), <<>>)
        ELSE Number(neg, Canonical(ipS), fpS)

\* float(clean_val) on a string of digits, '.' and '-': None stands for
\* ValueError.  A fraction is kept digit by digit, which is what the float
\* shows for up to DBL_DIG significant digits.
ParseFloat(s) ==
    LET neg  == s # <<>> /\ s[1] = "-"
        body == IF neg THEN Tail(s) ELSE s
        dots == {i \in 1..Len(body) : body[i] = "."}
        dot  == IF dots = {} THEN Len(body) + 1 ELSE CHOOSE i \in dots : TRUE
        ipS  == SubSeq(body, 1, dot - 1)
        fpS  == StripTrailingZeros(SubSeq(body, dot + 1, Len(body)))
    IN  IF \/ \E i \in 1..Len(body) : body[i] = "-"
           \/ Cardinality(dots) > 1
           \/ Len(body) = Cardinality(dots)
        THEN None
        ELSE IF fpS = <<>> THEN Number(neg, RoundToDouble(Canonical(ipS)), <<>>)
        ELSE Number(neg, Canonical(ipS), fpS)

\* re.sub(r'[,\s]', '', s)
RECURSIVE RemoveCommaSpace(_)
RemoveCommaSpace(s) ==
    IF s = <<>> THEN <<>>
    ELSE IF Head(s) = "," \/ IsSpace(Head(s)) THEN RemoveCommaSpace(Tail(s))
         ELSE <<Head(s)>> \o RemoveCommaSpace(Tail(s))

\* re.sub(r'[^\d.-]', '', s)
RECURSIVE KeepDigitDotMinus(_)
KeepDigitDotMinus(s) ==
    IF s = <<>> THEN <<>>
    ELSE IF IsDigit(Head(s)) \/ Head(s) = "." \/ Head(s) = "-"
         THEN <<Head(s)>> \o KeepDigitDotMinus(Tail(s))
         ELSE KeepDigitDotMinus(Tail(s))

\* to_number(val), val given as str(val)
to_number(s) ==
    LET str_val    == strip(s)
        clean_val1 == RemoveCommaSpace(str_val)
        clean_val  == KeepDigitDotMinus(clean_val1)
    IN  IF clean_val = <<>> \/ clean_val = <<"-">> \/ clean_val = <<".">>
        THEN None
        ELSE ParseFloat(clean_val)

\* x < y on numbers (min and max of the Type record)
RECURSIVE FracLess(_, _)
FracLess(a, b) ==
    IF b = <<>> THEN FALSE
    ELSE IF a = <<>> THEN TRUE
    ELSE IF DigitVal(a[1]) # DigitVal(b[1]) THEN DigitVal(a[1]) < DigitVal(b[1])
    ELSE FracLess(Tail(a), Tail(b))

\* a < b on digit strings without leading zeros
DecLess(a, b) == Len(a) < Len(b) \/ (Len(a) = Len(b) /\ FracLess(a, b))

MagLess(x, y) == DecLess(x.ip, y.ip) \/ (x.ip = y.ip /\ FracLess(x.fp, y.fp))

NumLess(x, y) ==
    IF x.neg # y.neg THEN x.neg
    ELSE IF x.neg THEN MagLess(y, x) ELSE MagLess(x, y)

\* min(seq) and max(seq) of a non-empty list of numbers
min(xs) == xs[CHOOSE i \in 1..Len(xs) : \A j \in 1..Len(xs) : ~NumLess(xs[j], xs[i])]

max(xs) == xs[CHOOSE i \in 1..Len(xs) : \A j \in 1..Len(xs) : ~NumLess(xs[i], xs[j])]

(***************************************************************************)
(* Fill styles and normalize_rgb.  A colour is a string of hex digits; a   *)
(* fill is NoFill or a record of its patternType ("none" for None) and     *)
(* the rgb strings of fgColor and bgColor (<<>> when absent).              *)
(***************************************************************************)
FFFFFF == <<"F", "F", "F", "F", "F", "F">>

TRANSPARENT == <<"0", "0", "0", "0", "0", "0", "0", "0">>

F2F2F2 == <<"F", "2", "F", "2", "F", "2">>

excluded_colors == {TRANSPARENT, F2F2F2}

NoFill == [present |-> FALSE, patternType |-> "none", fgRgb |-> <<>>, bgRgb |-> <<>>]

Fill(pt, fg, bg) == [present |-> TRUE, patternType |-> pt, fgRgb |-> fg, bgRgb |-> bg]

\* ColorOf without the test for the transparent sentinel
ColorOf_no_sentinel(rgb) ==
    LET color_str == upper(rgb)
    IN  IF rgb = <<>> THEN [ret |-> FALSE, found |-> <<>>]
        ELSE IF Len(color_str) = 8 THEN [ret |-> FALSE, found |-> SubSeq(color_str, 3, 8)]
        ELSE IF Len(color_str) = 6 THEN [ret |-> FALSE, found |-> color_str]
        ELSE [ret |-> FALSE, found |-> <<>>]

\* one of the two "Check fgColor" / "Check bgColor" blocks: what the block
\* finds in rgb, and whether it returns "FFFFFF" at once
ColorOf(rgb) ==
    LET color_str == upper(rgb)
    IN  IF rgb = <<>> THEN [ret |-> FALSE, found |-> <<>>]
        ELSE IF color_str = TRANSPARENT THEN [ret |-> TRUE, found |-> <<>>]
        ELSE IF Len(color_str) = 8 THEN [ret |-> FALSE, found |-> SubSeq(color_str, 3, 8)]
        ELSE IF Len(color_str) = 6 THEN [ret |-> FALSE, found |-> color_str]
        ELSE [ret |-> FALSE, found |-> <<>>]

\* normalize_rgb without the test of patternType
normalize_rgb_any_pattern(fill) ==
    IF ~fill.present THEN FFFFFF
    ELSE LET fg == ColorOf(fill.fgRgb)
             bg == ColorOf(fill.bgRgb)
         IN  IF fg.ret THEN FFFFFF
             ELSE IF fg.found = <<>> /\ bg.ret THEN FFFFFF
             ELSE LET color_found == IF fg.found # <<>> THEN fg.found ELSE bg.found
                  IN  IF color_found \in excluded_colors THEN FFFFFF
                      ELSE IF color_found # <<>> THEN color_found
                      ELSE FFFFFF

normalize_rgb(fill) ==
    IF ~fill.present THEN FFFFFF
    ELSE IF fill.patternType = "none" THEN FFFFFF
    ELSE IF fill.patternType # "solid" THEN FFFFFF
    ELSE LET fg == ColorOf(fill.fgRgb)
             bg == ColorOf(fill.bgRgb)
         IN  IF fg.ret THEN FFFFFF
             ELSE IF fg.found = <<>> /\ bg.ret THEN FFFFFF
             ELSE LET color_found == IF fg.found # <<>> THEN fg.found ELSE bg.found
                  IN  IF color_found \in excluded_colors THEN FFFFFF
                      ELSE IF color_found # <<>> THEN color_found
                      ELSE FFFFFF

(***************************************************************************)
(* A sheet.  raw is the pandas frame (header=None): a list of rows of      *)
(* cells, read 0-indexed by iat; a cell is str(value) and whether value    *)
(* is a str (an empty cell is NaN, "nan", never None).  ws is the          *)
(* openpyxl worksheet: the fills of rows 1..max_row, columns               *)
(* 1..max_column, read 1-indexed by ws.cell.                               *)
(***************************************************************************)
Str(s) == [isStr |-> TRUE, s |-> s]

Num(n) == [isStr |-> FALSE, s |-> Digits(n)]

Float(ip, fp) == [isStr |-> FALSE, s |-> Digits(ip) \o <<".">> \o fp]

NaN == [isStr |-> FALSE, s |-> <<"n", "a", "n">>]

shape0(raw) == Len(raw)

shape1(raw) == IF Len(raw) = 0 THEN 0 ELSE Len(raw[1])

iat(raw, r, c) == raw[r + 1][c + 1]

max_row(ws) == Len(ws)

max_column(ws) == IF Len(ws) = 0 THEN 0 ELSE Len(ws[1])

\* ws.cell(row, column).fill: a cell outside the used range is created empty
cell_fill(ws, row, col) ==
    IF row <= max_row(ws) /\ col <= max_column(ws) THEN ws[row][col] ELSE Fill("none", TRANSPARENT, TRANSPARENT)

(***************************************************************************)
(* Header Locator: the regular expressions, matched with re.IGNORECASE     *)
(***************************************************************************)
\* the literal lit (given in lower case) at position p of s
MatchAt(s, p, lit) ==
    /\ p >= 1
    /\ p + Len(lit) - 1 <= Len(s)
    /\ \A i \in 1..Len(lit) : LowerChar(s[p + i - 1]) = lit[i]

\* re.search(lit, s)
SearchLit(s, lit) == \E p \in 1..Len(s) : MatchAt(s, p, lit)

\* re.search(rf"\b{num}\b", s), num a digit string
SearchWord(s, num) ==
    \E p \in 1..Len(s) :
        /\ MatchAt(s, p, num)
        /\ (p = 1 \/ ~IsWordChar(s[p - 1]))
        /\ (p + Len(num) - 1 = Len(s) \/ ~IsWordChar(s[p + Len(num)]))

\* re.search(rf"{label}\s*{num}", s)
SearchLabelNum(s, label, num) ==
    \E p \in 1..Len(s) :
        /\ MatchAt(s, p, label)
        /\ \E q \in (p + Len(label))..Len(s) :
              /\ \A i \in (p + Len(label))..(q - 1) : IsSpace(s[i])
              /\ MatchAt(s, q, num)

\* re.search(r"\bh\s*/\s*w\b", s)
SearchHW(s) ==
    \E p \in 1..Len(s) : \E sl \in 1..Len(s) : \E q \in 1..Len(s) :
        /\ p < sl /\ sl < q
        /\ LowerChar(s[p]) = "h" /\ s[sl] = "/" /\ LowerChar(s[q]) = "w"
        /\ \A i \in (p + 1)..(sl - 1) : IsSpace(s[i])
        /\ \A i \in (sl + 1)..(q - 1) : IsSpace(s[i])
        /\ (p = 1 \/ ~IsWordChar(s[p - 1]))
        /\ (q = Len(s) \/ ~IsWordChar(s[q + 1]))

\* thickness_patterns of find_thickness_matrix_in_column_a, any of them
thickness_patterns(cell_val, thickness_num) ==
    LET num == Digits(thickness_num)
    IN  \/ SearchLit(cell_val, <<"t", "h", "k", ".">> \o num)
        \/ SearchWord(cell_val, num)
        \/ SearchLabelNum(cell_val, <<"t", "h", "i", "c", "k", "n", "e", "s", "s">>, num)
        \/ SearchLabelNum(cell_val, <<"U0E2B", "U0E19", "U0E32">>, num)
        \/ SearchLabelNum(cell_val, <<"U0E0A", "U0E31", "U0E49", "U0E19">>, num)
        \/ SearchLabelNum(cell_val, <<"U0E23", "U0E30", "U0E14", "U0E31", "U0E1A">>, num)

\* no row: the None of the two locators
NoRow == -1

\* the first element of a non-empty set of row numbers
MinOf(S) == CHOOSE r \in S : \A q \in S : r <= q

find_thickness_matrix_in_column_a(raw, thickness_num) ==
    LET hits == {r \in 0..(shape0(raw) - 1) :
                    /\ shape1(raw) > 0
                    /\ thickness_patterns(strip(iat(raw, r, 0).s), thickness_num)}
    IN  IF hits = {} THEN NoRow ELSE MinOf(hits)

find_main_matrix(raw) ==
    LET ones == {r \in 0..(shape0(raw) - 1) :
                    /\ shape1(raw) > 0
                    /\ SearchWord(strip(iat(raw, r, 0).s), <<"1">>)}
        hw   == {rc \in (0..(shape0(raw) - 1)) \X (0..(shape1(raw) - 1)) :
                    /\ iat(raw, rc[1], rc[2]).isStr
                    /\ SearchHW(iat(raw, rc[1], rc[2]).s)}
        \* row-major order of the fallback scan
        first == CHOOSE rc \in hw : \A o \in hw :
                    rc[1] < o[1] \/ (rc[1] = o[1] /\ rc[2] <= o[2])
    IN  IF ones # {} THEN [hr |-> MinOf(ones), hc |-> 0]
        ELSE IF hw # {} THEN [hr |-> first[1], hc |-> first[2]]
        ELSE [hr |-> NoRow, hc |-> NoRow]

(***************************************************************************)
(* Sheet Matrix Scanner: one sheet of scan_all_matrices_in_file            *)
(***************************************************************************)
\* range(2, 20) probes the thickness indices up to this one
LastThickness == 19

\* the reserved name of the table-of-contents sheet
TOC_NAME == <<"U0E2A", "U0E32", "U0E23", "U0E1A", "U0E31", "U0E0D">>

\* is_contents_sheet without the strip()
is_contents_sheet_unstripped(sheet_name) == lower(sheet_name) = TOC_NAME

\* sheet_name.strip().lower() == TOC_NAME
is_contents_sheet(sheet_name) == lower(strip(sheet_name)) = TOC_NAME

\* probe_thickness with "continue" for "break": a missing index is passed over
RECURSIVE probe_thickness_continue(_, _, _)
probe_thickness_continue(raw, n, found) ==
    IF n > LastThickness THEN found
    ELSE IF find_thickness_matrix_in_column_a(raw, n) = NoRow
         THEN probe_thickness_continue(raw, n + 1, found)
    ELSE probe_thickness_continue(raw, n + 1, Append(found, n))

\* the loop "for thickness in range(2, 20)" from index n on, found the list
\* so far: append while the header is found, break at the first one missing
RECURSIVE probe_thickness(_, _, _)
probe_thickness(raw, n, found) ==
    IF n > LastThickness THEN found
    ELSE IF find_thickness_matrix_in_column_a(raw, n) = NoRow THEN found
    ELSE probe_thickness(raw, n + 1, Append(found, n))

\* found_matrices of one sheet: [] without a main matrix, else [1] and the
\* thickness indices found before the first one that is missing
found_matrices(raw) ==
    IF find_main_matrix(raw).hr = NoRow THEN <<>>
    ELSE probe_thickness(raw, 2, <<1>>)

\* the body of the scan's try block and its except: the inventory recorded
\* for the sheet (raised: pd.read_excel or wb[sheet_name] raised)
scan_sheet(raw, raised) == IF raised THEN <<>> ELSE found_matrices(raw)

\* update_max without the comparison: the count of the last sheet scanned
update_max_last(current_max, found) == Len(found)

\* "if matrix_count > max_matrices: max_matrices = matrix_count"
update_max(current_max, found) ==
    IF Len(found) > current_max THEN Len(found) ELSE current_max

\* max_matrices = 1 before the first sheet
INITIAL_MAX_MATRICES == 1

(***************************************************************************)
(* Extraction Orchestrator: the parts of one sheet of process_file         *)
(***************************************************************************)
\* the (r, c) the label scan visits, in its order: r outer, c inner, c up to
\* shape[1] - 2
label_cells(raw) ==
    LET w == shape1(raw) - 1
    IN  IF w <= 0 THEN <<>>
        ELSE [k \in 1..(shape0(raw) * w) |-> <<(k - 1) \div w, (k - 1) % w>>]

\* the loop over label_cells from its k-th cell on, acc the two fields so far
RECURSIVE label_scan(_, _, _)
label_scan(raw, k, acc) ==
    LET cells == label_cells(raw)
    IN  IF k > Len(cells) THEN acc
        ELSE LET r    == cells[k][1]
                 c    == cells[k][2]
                 low  == lower(strip(iat(raw, r, c).s))
                 next == iat(raw, r, c + 1)
                 qty  == to_number(next.s)
             IN  IF low \in {<<"g", "l", "a", "s", "s", "_", "q", "t", "y">>,
                             <<"g", "l", "a", "s", "s", " ", "q", "t", "y">>}
                 THEN label_scan(raw, k + 1,
                        IF qty # None THEN [acc EXCEPT !.glass_qty = qty] ELSE acc)
                 ELSE IF low = <<"d", "e", "s", "c", "r", "i", "p", "t", "i", "o", "n">>
                 THEN label_scan(raw, k + 1, [acc EXCEPT !.description = strip(next.s)])
                 ELSE label_scan(raw, k + 1, acc)

\* sheet_glass_qty and sheet_description
sheet_labels(raw) == label_scan(raw, 1, [glass_qty |-> IntNum(1), description |-> <<>>])

\* read_widths with "continue" for "break": a cell that is no number is passed over
read_widths_continue(raw, hr, hc) ==
    LET cells == [j \in 1..(shape1(raw) - 1 - hc) |-> to_number(iat(raw, hr, hc + j).s)]
        IsNumber(v) == v # None
    IN  SelectSeq(cells, IsNumber)

\* widths: the numbers right of the header, up to the first cell that is none
read_widths(raw, hr, hc) ==
    LET ok == {n \in 0..(shape1(raw) - 1 - hc) :
                 \A j \in 1..n : to_number(iat(raw, hr, hc + j).s) # None}
        n  == CHOOSE m \in ok : \A j \in ok : j <= m
    IN  [j \in 1..n |-> to_number(iat(raw, hr, hc + j).s)]

\* heights: the numbers below the header, up to the first cell that is none
read_heights(raw, hr, hc) ==
    LET ok == {n \in 0..(shape0(raw) - 1 - hr) :
                 \A i \in 1..n : to_number(iat(raw, hr + i, hc).s) # None}
        n  == CHOOSE m \in ok : \A i \in ok : i <= m
    IN  [i \in 1..n |-> to_number(iat(raw, hr + i, hc).s)]

\* A colour dict keyed by (h, w): the loops write key (heights[i], widths[j])
\* for i outer, j inner, so a key written twice keeps its last write.
\* At(i, j) is the colour written at the 1-based index pair (i, j).
last_write(heights, widths, key) ==
    LET hits == {ij \in (1..Len(heights)) \X (1..Len(widths)) :
                    <<heights[ij[1]], widths[ij[2]]>> = key}
    IN  CHOOSE ij \in hits : \A o \in hits :
            o[1] < ij[1] \/ (o[1] = ij[1] /\ o[2] <= ij[2])

dict_keys(heights, widths) ==
    {<<heights[i], widths[j]>> : i \in 1..Len(heights), j \in 1..Len(widths)}

\* read_color_matrix: fixed offset, excel_row = hr + 2 + i_h, excel_col = hc + 2 + i_w
read_color_matrix(ws, hr, hc, widths, heights) ==
    [key \in dict_keys(heights, widths) |->
        LET ij == last_write(heights, widths, key)
        IN  normalize_rgb(cell_fill(ws, hr + 2 + (ij[1] - 1), hc + 2 + (ij[2] - 1)))]

\* the colour one cell contributes in read_color_matrix_with_thickness_row
bounded_color(ws, excel_row, excel_col) ==
    IF excel_row <= max_row(ws) /\ excel_col <= max_column(ws)
    THEN normalize_rgb(cell_fill(ws, excel_row, excel_col))
    ELSE FFFFFF

Min2(n) == IF n < 2 THEN n ELSE 2

\* <<excel_row, excel_col>> of the index pair (i_h, i_w) under an offset:
\* the 0-indexed hr_thick and hc_main go into the 1-indexed ws.cell as they are
excel_cell(hc_main, hr_thick, row_offset, col_offset, i_h, i_w) ==
    <<hr_thick + row_offset + i_h, hc_main + col_offset + i_w>>

\* valid_count of one candidate offset: the first (up to) 2 x 2 cells
valid_count(ws, hc_main, hr_thick, widths, heights, row_offset, col_offset) ==
    Cardinality({ij \in (0..(Min2(Len(heights)) - 1)) \X (0..(Min2(Len(widths)) - 1)) :
        LET xy == excel_cell(hc_main, hr_thick, row_offset, col_offset, ij[1], ij[2])
        IN  bounded_color(ws, xy[1], xy[2]) # FFFFFF})

\* the candidates in the order of the two loops over [1, 2, 3]
offset_candidates == [k \in 1..9 |-> <<((k - 1) \div 3) + 1, ((k - 1) % 3) + 1>>]

\* offset_search with ">=" for ">": the last candidate with the highest count
RECURSIVE offset_search_last(_, _, _, _, _, _, _)
offset_search_last(ws, hc_main, hr_thick, widths, heights, k, acc) ==
    IF k > Len(offset_candidates) THEN acc
    ELSE LET cand == offset_candidates[k]
             n    == valid_count(ws, hc_main, hr_thick, widths, heights, cand[1], cand[2])
         IN  offset_search_last(ws, hc_main, hr_thick, widths, heights, k + 1,
                 IF n >= acc.max_valid_colors
                 THEN [max_valid_colors |-> n, best_offset |-> cand]
                 ELSE acc)

\* the loop over the candidates from the k-th on
RECURSIVE offset_search(_, _, _, _, _, _, _)
offset_search(ws, hc_main, hr_thick, widths, heights, k, acc) ==
    IF k > Len(offset_candidates) THEN acc
    ELSE LET cand == offset_candidates[k]
             n    == valid_count(ws, hc_main, hr_thick, widths, heights, cand[1], cand[2])
         IN  offset_search(ws, hc_main, hr_thick, widths, heights, k + 1,
                 IF n > acc.max_valid_colors
                 THEN [max_valid_colors |-> n, best_offset |-> cand]
                 ELSE acc)

\* best_offset of read_color_matrix_with_thickness_row
best_offset(ws, hc_main, hr_thick, widths, heights) ==
    offset_search(ws, hc_main, hr_thick, widths, heights, 1,
                  [max_valid_colors |-> 0, best_offset |-> <<1, 1>>]).best_offset

\* read_color_matrix_with_thickness_row: best_colors
read_color_matrix_with_thickness_row(ws, hc_main, hr_thick, widths, heights) ==
    LET off == best_offset(ws, hc_main, hr_thick, widths, heights)
    IN  [key \in dict_keys(heights, widths) |->
            LET ij == last_write(heights, widths, key)
                xy == excel_cell(hc_main, hr_thick, off[1], off[2], ij[1] - 1, ij[2] - 1)
            IN  bounded_color(ws, xy[1], xy[2])]

\* the cells read_color_matrix_with_thickness_row fetches with ws.cell: the
\* samples of the nine candidates and the matrix under the offset chosen
cells_fetched(ws, hc_main, hr_thick, widths, heights) ==
    LET off     == best_offset(ws, hc_main, hr_thick, widths, heights)
        sampled == {excel_cell(hc_main, hr_thick, offset_candidates[k][1],
                               offset_candidates[k][2], ij[1], ij[2]) :
                        k \in 1..Len(offset_candidates),
                        ij \in (0..(Min2(Len(heights)) - 1)) \X (0..(Min2(Len(widths)) - 1))}
        read    == {excel_cell(hc_main, hr_thick, off[1], off[2], ij[1], ij[2]) :
                        ij \in (0..(Len(heights) - 1)) \X (0..(Len(widths) - 1))}
    IN  {xy \in sampled \cup read : xy[1] <= max_row(ws) /\ xy[2] <= max_column(ws)}

\* matrix_colors: index 1 by read_color_matrix, the others by their thickness row
matrix_colors(raw, ws, hr, hc, widths, heights, available_matrices) ==
    [i \in {available_matrices[k] : k \in 1..Len(available_matrices)} |->
        IF i = 1 THEN read_color_matrix(ws, hr, hc, widths, heights)
        ELSE read_color_matrix_with_thickness_row(
                 ws, hc, find_thickness_matrix_in_column_a(raw, i), widths, heights)]

\* base_name: the uploaded file's name without its extension
base_name == <<"b", "o", "o", "k">>

\* price_cell one row too high: the row of the header
price_cell_header_row(raw, hr, hc, i_h, i_w) == iat(raw, hr + i_h, hc + 1 + i_w)

\* raw_price of the index pair (i_h, i_w): the cell of the main matrix
price_cell(raw, hr, hc, i_h, i_w) == iat(raw, hr + 1 + i_h, hc + 1 + i_w)

\* record_colors over the sheet's own matrices only
record_colors_own(colors, h, w, max_matrices_count) ==
    [i \in DOMAIN colors |-> colors[i][<<h, w>>]]

\* the colour columns of one Price record: one per index up to
\* max_matrices_count, "FFFFFF" where the sheet has no such matrix
record_colors(colors, h, w, max_matrices_count) ==
    [i \in 1..max_matrices_count |->
        IF i \in DOMAIN colors THEN colors[i][<<h, w>>] ELSE FFFFFF]

\* the Price records of one sheet.  The record's colour columns "1_Color" ..
\* "N_Color" are its field color, a function on 1..N.
sheet_price_rows(raw, sheet, hr, hc, widths, heights, colors, glass_qty, max_matrices_count, price_id) ==
    LET nw    == Len(widths)
        pairs == [k \in 1..(Len(heights) * nw) |-> <<(k - 1) \div nw, (k - 1) % nw>>]
        p(ij) == to_number(price_cell(raw, hr, hc, ij[1], ij[2]).s)
        Priced(ij) == p(ij) # None
        kept  == SelectSeq(pairs, Priced)
    IN  [k \in 1..Len(kept) |->
            LET i_h == kept[k][1]
                i_w == kept[k][2]
                h   == heights[i_h + 1]
                w   == widths[i_w + 1]
            IN  [ID        |-> price_id + k - 1,
                 Serie     |-> base_name,
                 Type      |-> strip(sheet),
                 Width     |-> w,
                 Height    |-> h,
                 Price     |-> p(kept[k]),
                 Glass_QTY |-> glass_qty,
                 color     |-> record_colors(colors, h, w, max_matrices_count)]]

\* the Type record of one sheet
sheet_type_row(sheet, description, widths, heights, type_id) ==
    [ID          |-> type_id,
     Serie       |-> base_name,
     Type        |-> strip(sheet),
     Description |-> description,
     width_min   |-> min(widths),
     width_max   |-> max(widths),
     height_min  |-> min(heights),
     height_max  |-> max(heights)]

\* the reasons recorded in skipped_sheets (the source's messages are Thai)
REASON_CONTENTS == "contents sheet"

REASON_NO_MATRIX == "no matrix found"

REASON_NO_MAIN == "main matrix not found"

REASON_NO_DIMENSIONS == "dimensions not found"

\* a skip that leaves no entry in skipped_sheets
skipped_unrecorded(reason) == [skip |-> "", type_rows |-> <<>>, price_rows |-> <<>>]

\* skipped_sheets.append({"sheet": sheet, "reason": reason}) and continue:
\* the iteration ends with the reason and without records
skipped(reason) == [skip |-> reason, type_rows |-> <<>>, price_rows |-> <<>>]

\* One iteration of process_file's loop over xls.sheet_names, when nothing
\* raises: what it appends.  skip is "" for a processed sheet.
process_sheet(sheet, raw, ws, available_matrices, max_matrices_count, price_id, type_id) ==
    LET labels  == sheet_labels(raw)
        main    == find_main_matrix(raw)
        widths  == read_widths(raw, main.hr, main.hc)
        heights == read_heights(raw, main.hr, main.hc)
        colors  == matrix_colors(raw, ws, main.hr, main.hc, widths, heights,
                                 available_matrices)
    IN  IF is_contents_sheet(sheet) THEN skipped(REASON_CONTENTS)
        ELSE IF available_matrices = <<>> THEN skipped(REASON_NO_MATRIX)
        ELSE IF main.hr = NoRow \/ main.hc = NoRow THEN skipped(REASON_NO_MAIN)
        ELSE IF widths = <<>> \/ heights = <<>> THEN skipped(REASON_NO_DIMENSIONS)
        ELSE [skip       |-> "",
              type_rows  |-> <<sheet_type_row(sheet, labels.description, widths,
                                              heights, type_id)>>,
              price_rows |-> sheet_price_rows(raw, sheet, main.hr, main.hc, widths,
                                 heights, colors, labels.glass_qty,
                                 max_matrices_count, price_id)]

(***************************************************************************)
(* Workbooks.  The sheets a workbook is made of are drawn from SheetPool;  *)
(* a sheet's name follows from its kind and its position, so that the      *)
(* names of a workbook differ, as Excel requires.                          *)
(***************************************************************************)
MaxSheets == 2

Chars_x == <<"x">>

Chars_abc == <<"a", "b", "c">>

Chars_Thk2 == <<"T", "h", "k", ".", "2">>

Chars_Thickness3 == <<"T", "h", "i", "c", "k", "n", "e", "s", "s", " ", "3">>

Chars_HW == <<"H", " ", "/", " ", "W">>

Chars_GlassQty == <<"G", "l", "a", "s", "s", "_", "Q", "T", "Y">>

Chars_glass_qty == <<" ", "g", "l", "a", "s", "s", " ", "q", "t", "y">>

Chars_Description == <<"D", "e", "s", "c", "r", "i", "p", "t", "i", "o", "n">>

Chars_first == <<" ", "f", "i", "r", "s", "t", " ">>

Chars_second == <<"s", "e", "c", "o", "n", "d">>

\* "1 2 3 ... n"
RECURSIVE NumList(_)
NumList(n) == IF n = 1 THEN <<"1">> ELSE NumList(n - 1) \o <<" ">> \o Digits(n)

W0 == Fill("none", TRANSPARENT, TRANSPARENT)

RED == Fill("solid", <<"F", "F", "F", "F", "0", "0", "0", "0">>, <<>>)

GRN == Fill("solid", <<"0", "0", "f", "f", "0", "0">>, <<>>)

BLU == Fill("solid", <<>>, <<"F", "F", "0", "0", "0", "0", "F", "F">>)

GRAY == Fill("gray125", <<"F", "F", "F", "F", "0", "0", "0", "0">>, <<>>)

F2 == Fill("solid", <<"F", "F", "F", "2", "F", "2", "F", "2">>, <<>>)

\* a worksheet of rows x cols cells, filled as painted says, else unfilled
Ws(rows, cols, painted) ==
    [r \in 1..rows |-> [c \in 1..cols |->
        IF <<r, c>> \in DOMAIN painted THEN painted[<<r, c>>] ELSE W0]]

\* readable: whether pd.read_excel reads the sheet (it raises on a chart sheet)
Sheet(kind, raw, ws) == [kind |-> kind, readable |-> TRUE, raw |-> raw, ws |-> ws]

ChartSheet == [kind |-> "plain", readable |-> FALSE, raw |-> <<>>, ws |-> <<>>]

\* main header "1", 2 x 2 numeric prices
RawA == << <<Str(<<"1">>), Num(100), Num(200)>>,
           <<Num(50),      Num(10),  Num(20)>>,
           <<Num(100),     Num(30),  Num(40)>> >>

WsA == Ws(3, 3, <<2, 2>> :> RED @@ <<2, 3>> :> GRN @@ <<3, 2>> :> GRAY @@ <<3, 3>> :> BLU)

\* a second matrix under "Thk.2", one price that is no number
RawB == << <<Str(<<"1">>),     Num(100), Num(200)>>,
           <<Num(50),          Num(10),  Str(Chars_x)>>,
           <<NaN,              NaN,      NaN>>,
           <<Str(Chars_Thk2),  NaN,      NaN>> >>

WsB == Ws(5, 3, <<2, 2>> :> GRN @@ <<5, 2>> :> BLU @@ <<5, 3>> :> RED)

\* three matrices: 1, 2 (a number cell), "Thickness 3"
RawC == << <<Num(1),                 Num(100)>>,
           <<Num(50),                Num(10)>>,
           <<NaN,                    NaN>>,
           <<Num(2),                 NaN>>,
           <<Str(Chars_Thickness3),  NaN>> >>

WsC == Ws(6, 2, <<2, 2>> :> RED @@ <<4, 2>> :> GRN @@ <<6, 2>> :> BLU @@ <<5, 1>> :> F2)

\* a gap: thickness 3 without thickness 2
RawD == << <<Str(<<"1">>), Num(100)>>,
           <<Num(50),      Num(10)>>,
           <<NaN,          NaN>>,
           <<Num(3),       NaN>> >>

WsD == Ws(4, 2, <<2, 2>> :> BLU @@ <<4, 2>> :> RED)

\* no main header, yet a thickness header
RawE == << <<Str(Chars_x), Num(100)>>,
           <<Num(50),      Num(10)>>,
           <<Num(2),       NaN>> >>

WsE == Ws(3, 2, <<2, 2>> :> RED)

\* the h/w fallback, in column B; "Thk.2" in column A
RawF == << <<NaN,              Str(Chars_HW), Num(100), Num(200)>>,
           <<NaN,              Num(50),       Num(10),  Num(20)>>,
           <<Str(Chars_Thk2),  NaN,           NaN,      NaN>> >>

WsF == Ws(4, 4, <<2, 3>> :> RED @@ <<2, 4>> :> GRN @@ <<4, 3>> :> BLU @@ <<4, 4>> :> BLU)

\* main header found, no number to its right
RawG == << <<Str(<<"1">>), Str(Chars_abc), Num(100)>>,
           <<Num(50),      Num(10),        Num(20)>> >>

\* main header found, no number below it
RawH == << <<Str(<<"1">>),   Num(100)>>,
           <<Str(Chars_abc), Num(10)>>,
           <<Num(50),        Num(20)>> >>

WsGH == Ws(3, 3, <<2, 2>> :> RED)

\* an empty sheet
RawI == <<>>

WsI == Ws(1, 1, <<2, 2>> :> RED)

\* two glass-quantity labels and two description labels
RawJ == << <<Str(Chars_GlassQty),    Num(2),           Str(Chars_glass_qty),   Num(3)>>,
           <<Str(Chars_Description), Str(Chars_first), Str(Chars_Description), Str(Chars_second)>>,
           <<Str(<<"1">>),           Num(100),         NaN,                    NaN>>,
           <<Num(50),                Num(10),          NaN,                    NaN>> >>

WsJ == Ws(4, 4, <<4, 2>> :> GRN)

\* the same width twice
RawK == << <<Str(<<"1">>), Num(100), Num(100)>>,
           <<Num(50),      Num(10),  Num(20)>> >>

WsK == Ws(2, 3, <<2, 2>> :> RED @@ <<2, 3>> :> GRN)

\* float cells: 1.0, 100.0, 200.5 / 50.0, 10.5, empty
RawL == << <<Float(1, <<"0">>),  Float(100, <<"0">>), Float(200, <<"5">>)>>,
           <<Float(50, <<"0">>), Float(10, <<"5">>),  NaN>> >>

WsL == Ws(2, 3, <<2, 2>> :> BLU @@ <<2, 3>> :> RED)

\* the heights run into the thickness header 2
RawM == << <<Str(<<"1">>), Num(100)>>,
           <<Num(50),      Num(10)>>,
           <<Num(2),       Num(30)>> >>

WsM == Ws(4, 3, <<2, 2>> :> RED @@ <<3, 2>> :> GRN @@ <<4, 2>> :> BLU)

\* one header cell naming every index up to LastThickness + 1
RawN == << <<Str(NumList(LastThickness + 1)), Num(100)>>,
           <<Num(50),                         Num(10)>> >>

WsN == Ws(3, 3, <<2, 2>> :> RED @@ <<3, 3>> :> GRN)

SheetPool ==
    << Sheet("plain", RawA, WsA), Sheet("plain", RawB, WsB), Sheet("plain", RawC, WsC),
       Sheet("plain", RawD, WsD), Sheet("plain", RawE, WsE), Sheet("plain", RawF, WsF),
       Sheet("plain", RawG, WsGH), Sheet("plain", RawH, WsGH), Sheet("plain", RawI, WsI),
       Sheet("plain", RawJ, WsJ), Sheet("plain", RawK, WsK), Sheet("plain", RawL, WsL),
       Sheet("plain", RawM, WsM), Sheet("plain", RawN, WsN),
       Sheet("toc", RawC, WsC), Sheet("toc", RawI, WsI),
       Sheet("near", RawB, WsB), ChartSheet >>

Spaces(n) == [i \in 1..n |-> " "]

\* the name of the sheet of this kind at position pos of a workbook
sheet_name(kind, pos) ==
    IF kind = "toc" THEN Spaces((pos - 1) % 2) \o TOC_NAME \o Spaces((pos - 1) \div 2)
    ELSE IF kind = "near" THEN TOC_NAME \o Digits(pos)
    ELSE <<"S">> \o Digits(pos) \o Spaces(pos % 2)

(***************************************************************************)
(* The /api/process request: process_excel around process_file.            *)
(***************************************************************************)
mainVars == <<sheet_ids, pc, upload_file, price_file, type_file, scan_i, max_matrices,
              all_sheet_matrices, proc_i, price_rows, type_rows, processed_sheets,
              skipped_sheets, response, cleanup_task>>

callVars == <<call, result>>

jobVars == <<jobs, uploads>>

vars == <<mainVars, callVars, jobVars>>

NoJobs == <<>>

NoCall == [fn |-> "none"]

NoResponse == [status |-> "none", total_records |-> 0, processed_sheets |-> 0,
               skipped_sheets |-> <<>>]

Workbooks == UNION {[1..n -> 1..Len(SheetPool)] : n \in 1..MaxSheets}

\* the sheet at position i of the workbook
SheetAt(i) == SheetPool[sheet_ids[i]]

NameAt(i) == sheet_name(SheetAt(i).kind, i)

Idle ==
    /\ pc = "start"
    /\ upload_file = "absent" /\ price_file = "absent" /\ type_file = "absent"
    /\ scan_i = 1 /\ max_matrices = INITIAL_MAX_MATRICES /\ all_sheet_matrices = <<>>
    /\ proc_i = 1 /\ price_rows = <<>> /\ type_rows = <<>>
    /\ processed_sheets = 0 /\ skipped_sheets = <<>>
    /\ response = NoResponse /\ cleanup_task = "none"

Init ==
    /\ sheet_ids \in Workbooks
    /\ Idle
    /\ call = NoCall /\ result = NoCall
    /\ jobs = NoJobs /\ uploads = {}

\* process_excel: "Save uploaded file".  A failed copy may leave the file.
SaveUpload ==
    /\ pc = "start"
    /\ \E ok \in BOOLEAN :
          IF ok THEN upload_file' = "present" /\ pc' = "open"
          ELSE upload_file' \in {"absent", "present"} /\ pc' = "except"
    /\ UNCHANGED <<sheet_ids, price_file, type_file, scan_i, max_matrices,
                   all_sheet_matrices, proc_i, price_rows, type_rows, processed_sheets,
                   skipped_sheets, response, cleanup_task, callVars, jobVars>>

\* process_file: pd.ExcelFile and load_workbook; a file that is no workbook raises
OpenWorkbook ==
    /\ pc = "open"
    /\ \E ok \in BOOLEAN : pc' = IF ok THEN "scan" ELSE "except"
    /\ UNCHANGED <<sheet_ids, upload_file, price_file, type_file, scan_i, max_matrices,
                   all_sheet_matrices, proc_i, price_rows, type_rows, processed_sheets,
                   skipped_sheets, response, cleanup_task, callVars, jobVars>>

\* scan_all_matrices_in_file: one iteration of the loop over xls.sheet_names.
\* What raises in the try block (a sheet pd.read_excel cannot read) is caught
\* and leaves the sheet an empty inventory.
ScanSheet ==
    /\ pc = "scan"
    /\ scan_i <= Len(sheet_ids)
    /\ IF is_contents_sheet(NameAt(scan_i))
       THEN UNCHANGED <<max_matrices, all_sheet_matrices>>
       ELSE LET found == scan_sheet(SheetAt(scan_i).raw, ~SheetAt(scan_i).readable)
            IN  /\ all_sheet_matrices' = (scan_i :> found) @@ all_sheet_matrices
                /\ max_matrices' = update_max(max_matrices, found)
    /\ scan_i' = scan_i + 1
    /\ UNCHANGED <<sheet_ids, pc, upload_file, price_file, type_file, proc_i, price_rows,
                   type_rows, processed_sheets, skipped_sheets, response, cleanup_task,
                   callVars, jobVars>>

\* scan_all_matrices_in_file returns; process_file sets up its lists
ScanReturn ==
    /\ pc = "scan"
    /\ scan_i > Len(sheet_ids)
    /\ pc' = "process"
    /\ proc_i' = 1
    /\ price_rows' = <<>> /\ type_rows' = <<>>
    /\ processed_sheets' = 0 /\ skipped_sheets' = <<>>
    /\ UNCHANGED <<sheet_ids, upload_file, price_file, type_file, scan_i, max_matrices,
                   all_sheet_matrices, response, cleanup_task, callVars, jobVars>>

\* all_sheet_matrices.get(sheet, [])
available_matrices(i) ==
    IF i \in DOMAIN all_sheet_matrices THEN all_sheet_matrices[i] ELSE <<>>

\* whether the iteration for sheet i gets as far as pd.read_excel and wb[sheet]
reads_sheet(i) == ~is_contents_sheet(NameAt(i)) /\ available_matrices(i) # <<>>

\* process_file: one iteration of the loop over xls.sheet_names.  The loop
\* body has no try of its own: what raises in it (raised: pd.read_excel or
\* wb[sheet] raised on a sheet the scan could read, an I/O or memory error)
\* leaves the loop for process_file's except.
ProcessSheet ==
    /\ pc = "process"
    /\ proc_i <= Len(sheet_ids)
    /\ \E raised \in BOOLEAN :
          IF raised /\ reads_sheet(proc_i)
          THEN /\ pc' = "except"
               /\ UNCHANGED <<proc_i, price_rows, type_rows, processed_sheets,
                              skipped_sheets>>
          ELSE LET out == process_sheet(NameAt(proc_i), SheetAt(proc_i).raw,
                                        SheetAt(proc_i).ws, available_matrices(proc_i),
                                        max_matrices, Len(price_rows) + 1,
                                        Len(type_rows) + 1)
               IN  /\ pc' = pc
                   /\ proc_i' = proc_i + 1
                   /\ price_rows' = price_rows \o out.price_rows
                   /\ type_rows' = type_rows \o out.type_rows
                   /\ processed_sheets' =
                          IF out.skip = "" THEN processed_sheets + 1 ELSE processed_sheets
                   /\ skipped_sheets' =
                          IF out.skip = "" THEN skipped_sheets
                          ELSE Append(skipped_sheets,
                                      [sheet |-> NameAt(proc_i), reason |-> out.skip])
    /\ UNCHANGED <<sheet_ids, upload_file, price_file, type_file, scan_i, max_matrices,
                   all_sheet_matrices, response, cleanup_task, callVars, jobVars>>

\* pd.DataFrame(price_rows).to_excel(price_file): a write that raises may
\* have created the file
WritePrice ==
    /\ pc = "process"
    /\ proc_i > Len(sheet_ids)
    /\ \E ok \in BOOLEAN :
          IF ok THEN price_file' = "written" /\ pc' = "write_type"
          ELSE price_file' \in {"absent", "partial"} /\ pc' = "except"
    /\ UNCHANGED <<sheet_ids, upload_file, type_file, scan_i, max_matrices,
                   all_sheet_matrices, proc_i, price_rows, type_rows, processed_sheets,
                   skipped_sheets, response, cleanup_task, callVars, jobVars>>

\* pd.DataFrame(type_rows).to_excel(type_file)
WriteType ==
    /\ pc = "write_type"
    /\ \E ok \in BOOLEAN :
          IF ok THEN type_file' = "written" /\ pc' = "return"
          ELSE type_file' \in {"absent", "partial"} /\ pc' = "except"
    /\ UNCHANGED <<sheet_ids, upload_file, price_file, scan_i, max_matrices,
                   all_sheet_matrices, proc_i, price_rows, type_rows, processed_sheets,
                   skipped_sheets, response, cleanup_task, callVars, jobVars>>

\* process_file returns its summary; process_excel schedules the cleanup
\* of the upload and answers with the summary
Return ==
    /\ pc = "return"
    /\ response' = [status           |-> "success",
                    total_records    |-> Len(price_rows),
                    processed_sheets |-> processed_sheets,
                    skipped_sheets   |-> skipped_sheets]
    /\ cleanup_task' = "scheduled"
    /\ pc' = "done"
    /\ UNCHANGED <<sheet_ids, upload_file, price_file, type_file, scan_i, max_matrices,
                   all_sheet_matrices, proc_i, price_rows, type_rows, processed_sheets,
                   skipped_sheets, callVars, jobVars>>

\* process_file's except re-raises "Processing failed"; process_excel's
\* except unlinks the upload, and nothing else, and answers 500
HandleError ==
    /\ pc = "except"
    /\ upload_file' = "absent"
    /\ response' = [NoResponse EXCEPT !.status = "error"]
    /\ pc' = "done"
    /\ UNCHANGED <<sheet_ids, price_file, type_file, scan_i, max_matrices,
                   all_sheet_matrices, proc_i, price_rows, type_rows, processed_sheets,
                   skipped_sheets, cleanup_task, callVars, jobVars>>

\* cleanup_files, once its delay has passed
cleanup_files ==
    /\ cleanup_task = "scheduled"
    /\ upload_file' = "absent"
    /\ cleanup_task' = "ran"
    /\ UNCHANGED <<sheet_ids, pc, price_file, type_file, scan_i, max_matrices,
                   all_sheet_matrices, proc_i, price_rows, type_rows, processed_sheets,
                   skipped_sheets, response, callVars, jobVars>>

Next ==
    \/ SaveUpload
    \/ OpenWorkbook
    \/ ScanSheet
    \/ ScanReturn
    \/ ProcessSheet
    \/ WritePrice
    \/ WriteType
    \/ Return
    \/ HandleError
    \/ cleanup_files

Spec == Init /\ [][Next]_vars

(***************************************************************************)
(* Properties of the request (specification Spec)                          *)
(***************************************************************************)
Positions == 1..Len(sheet_ids)

\* the scan has taken every sheet
ScanDone == scan_i > Len(sheet_ids)

\* the main loop has completed its iteration for the sheet at position s
Iterated(s) == s \in Positions /\ s < proc_i

IsRowOf(row, s) == row.Type = strip(NameAt(s))

\* the Price records, Type records and skip entries of the sheet at position s
RowsOf(s) == LET Mine(row) == IsRowOf(row, s) IN SelectSeq(price_rows, Mine)

TypeRowsOf(s) == LET Mine(row) == IsRowOf(row, s) IN SelectSeq(type_rows, Mine)

SkipsOf(s) == LET Mine(e) == e.sheet = NameAt(s) IN SelectSeq(skipped_sheets, Mine)

Elements(seq) == {seq[i] : i \in 1..Len(seq)}

\* the position of the sheet a Price record came from
SheetOfRow(row) == CHOOSE s \in Positions : IsRowOf(row, s)

\* processed_sheets counts the sheets that produced a Type record
ProcessedCount == Cardinality({s \in Positions : Iterated(s) /\ TypeRowsOf(s) # <<>>})

\* C1: a sheet whose processing raises is recorded in skippedSheets and the
\* loop goes on with the next sheet: process_file never ends in its fatal
\* outcome from inside the loop over the sheets, with sheets still to take.
C1_SheetFailureIsSkipped ==
    (pc \in {"except", "done"} /\ ScanDone) => proc_i > Len(sheet_ids)

\* C2: the outcome is a complete summary with both output files, or a fatal
\* error with no output file: no error is reported while the Price file of
\* the job is written and its Type file is not.
C2_NoOutputLeftOnError ==
    response.status = "error" => ~(price_file = "written" /\ type_file # "written")

\* C3: every Price record has exactly the colour columns 1..max_matrices, and
\* a column whose index is not in the inventory of the record's own sheet
\* holds "FFFFFF".
C3_SchemaUniform ==
    \A k \in 1..Len(price_rows) :
        LET row == price_rows[k]
            inv == available_matrices(SheetOfRow(row))
        IN  /\ \E s \in Positions : IsRowOf(row, s)
            /\ DOMAIN row.color = 1..max_matrices
            /\ \A i \in 1..max_matrices : i \notin Elements(inv) => row.color[i] = FFFFFF

\* a record of a sheet with fewer matrices than the workbook's maximum, padded
\* with "FFFFFF", beside a record with a real second colour
C3_Witness ==
    /\ \E k \in 1..Len(price_rows) :
          /\ Len(available_matrices(SheetOfRow(price_rows[k]))) < max_matrices
          /\ price_rows[k].color[max_matrices] = FFFFFF
          /\ price_rows[k].color[1] # FFFFFF
    /\ \E k \in 1..Len(price_rows) : price_rows[k].color[2] # FFFFFF

MaxInventoryLen ==
    LET lens == {Len(all_sheet_matrices[s]) : s \in DOMAIN all_sheet_matrices}
    IN  IF lens = {} THEN 0 ELSE CHOOSE n \in lens : \A m \in lens : m <= n

\* C5 as stated: the max_matrices the scan returns is the greatest inventory
\* length over the scanned sheets, also when every inventory is empty.
C5_MaxIsMaxInventory == ScanDone => max_matrices = MaxInventoryLen

\* C5 as amended: the max_matrices the scan returns is the greatest inventory
\* length over the scanned sheets, and 1 when that is 0.
C5_MaxIsMaxInventoryOrOne ==
    ScanDone => max_matrices = (IF MaxInventoryLen < 1 THEN 1 ELSE MaxInventoryLen)

\* a scan that gave every sheet an empty inventory, and one that went above 1
C5_Witness ==
    /\ ScanDone
    /\ DOMAIN all_sheet_matrices # {}
    /\ MaxInventoryLen = 0
    /\ max_matrices = 1

\* the sheet at s got as far as the dimensions: not the contents sheet, an
\* inventory, a main header
HasMain(s) ==
    /\ SheetAt(s).kind # "toc"
    /\ available_matrices(s) # <<>>
    /\ find_main_matrix(SheetAt(s).raw).hr # NoRow

\* the cell right of (below) the main header is no number, or there is none
NoWidths(s) ==
    LET raw == SheetAt(s).raw
        m   == find_main_matrix(raw)
    IN  m.hc + 1 >= shape1(raw) \/ to_number(iat(raw, m.hr, m.hc + 1).s) = None

NoHeights(s) ==
    LET raw == SheetAt(s).raw
        m   == find_main_matrix(raw)
    IN  m.hr + 1 >= shape0(raw) \/ to_number(iat(raw, m.hr + 1, m.hc).s) = None

Processable(s) == Iterated(s) /\ HasMain(s) /\ ~NoWidths(s) /\ ~NoHeights(s)

\* the index pairs of the sheet at s whose price cell is a number
PricedPairs(s) ==
    LET raw == SheetAt(s).raw
        m   == find_main_matrix(raw)
    IN  {ij \in (0..(Len(read_heights(raw, m.hr, m.hc)) - 1))
                \X (0..(Len(read_widths(raw, m.hr, m.hc)) - 1)) :
            to_number(iat(raw, m.hr + 1 + ij[1], m.hc + 1 + ij[2]).s) # None}

\* how many pairs of S come before ij, height outer, width inner
Rank(S, ij) ==
    Cardinality({o \in S : o[1] < ij[1] \/ (o[1] = ij[1] /\ o[2] < ij[2])})

\* C6: a processable sheet has one Price record for exactly the index pairs
\* whose cell at main header + (1+i, 1+j) is a number, in height-outer,
\* width-inner order, with Height = heights[i], Width = widths[j] and Price
\* the number of that cell.
C6_OneRecordPerPricedCell ==
    \A s \in Positions :
        Processable(s) =>
            LET raw    == SheetAt(s).raw
                m      == find_main_matrix(raw)
                H      == read_heights(raw, m.hr, m.hc)
                W      == read_widths(raw, m.hr, m.hc)
                rows   == RowsOf(s)
                priced == PricedPairs(s)
            IN  /\ Len(rows) = Cardinality(priced)
                /\ \A ij \in priced :
                      LET row == rows[Rank(priced, ij) + 1]
                      IN  /\ row.Height = H[ij[1] + 1]
                          /\ row.Width = W[ij[2] + 1]
                          /\ row.Price =
                                 to_number(iat(raw, m.hr + 1 + ij[1], m.hc + 1 + ij[2]).s)

\* one processed sheet with a price cell that is no number and fewer records
\* than cells, and one whose 2 x 2 grid is all numbers, with 4 records
C6_Witness ==
    /\ \E s \in Positions :
          /\ Processable(s)
          /\ 0 < Len(RowsOf(s))
          /\ Cardinality(PricedPairs(s)) <
                 Len(read_heights(SheetAt(s).raw, find_main_matrix(SheetAt(s).raw).hr,
                                  find_main_matrix(SheetAt(s).raw).hc))
                 * Len(read_widths(SheetAt(s).raw, find_main_matrix(SheetAt(s).raw).hr,
                                   find_main_matrix(SheetAt(s).raw).hc))
    /\ \E s \in Positions : Processable(s) /\ Len(RowsOf(s)) = 4

\* C7: a sheet with the reserved contents name is not scanned, is recorded in
\* skipped_sheets with the contents reason, gives no Price and no Type record,
\* is not counted in processed_sheets and has no part in max_matrices.
C7_ContentsSheetSkipped ==
    /\ \A s \in Positions :
          SheetAt(s).kind = "toc" =>
              /\ s \notin DOMAIN all_sheet_matrices
              /\ Iterated(s) =>
                    /\ SkipsOf(s) = <<[sheet |-> NameAt(s), reason |-> REASON_CONTENTS]>>
                    /\ RowsOf(s) = <<>>
                    /\ TypeRowsOf(s) = <<>>
    /\ processed_sheets = ProcessedCount
    /\ \/ max_matrices = INITIAL_MAX_MATRICES
       \/ \E s \in DOMAIN all_sheet_matrices :
             SheetAt(s).kind # "toc" /\ Len(all_sheet_matrices[s]) = max_matrices

\* a contents sheet named with a leading blank and holding three matrices has
\* been passed over, beside a sheet that gave records
C7_Witness ==
    \E s \in Positions :
        /\ SheetAt(s).kind = "toc"
        /\ NameAt(s) # TOC_NAME
        /\ Len(found_matrices(SheetAt(s).raw)) = 3
        /\ Iterated(s)
        /\ max_matrices = 1
        /\ processed_sheets = 1
        /\ Len(price_rows) > 0

\* C8: a sheet whose main header is found and whose widths or heights are
\* empty is recorded in skipped_sheets with the dimensions reason, gives no
\* Type and no Price record and is not counted in processed_sheets; the loop
\* has gone on past it.
C8_NoDimensionsSkipped ==
    /\ \A s \in Positions :
          (Iterated(s) /\ HasMain(s) /\ (NoWidths(s) \/ NoHeights(s))) =>
              /\ SkipsOf(s) = <<[sheet |-> NameAt(s), reason |-> REASON_NO_DIMENSIONS]>>
              /\ TypeRowsOf(s) = <<>>
              /\ RowsOf(s) = <<>>
    /\ processed_sheets = Cardinality({s \in Positions : Processable(s)})

\* a sheet without widths was skipped first, and the next sheet was processed
C8_Witness ==
    /\ Iterated(2)
    /\ HasMain(1) /\ NoWidths(1) /\ ~NoHeights(1)
    /\ shape1(SheetAt(1).raw) > 2
    /\ Processable(2)
    /\ processed_sheets = 1

GlassLabels == {<<"g", "l", "a", "s", "s", "_", "q", "t", "y">>,
                <<"g", "l", "a", "s", "s", " ", "q", "t", "y">>}

DescriptionLabels == {<<"d", "e", "s", "c", "r", "i", "p", "t", "i", "o", "n">>}

\* the cells of raw that hold one of the labels and have a right neighbour
LabelCells(raw, labels) ==
    {rc \in (0..(shape0(raw) - 1)) \X (0..(shape1(raw) - 2)) :
        lower(strip(iat(raw, rc[1], rc[2]).s)) \in labels}

\* the first of them in row-major order
FirstCell(S) == CHOOSE rc \in S : Rank(S, rc) = 0

\* C9: first match wins per field, in row-major order: the Glass_QTY of a
\* sheet's Price records is the number right of the first glass-quantity
\* label, and the Description of its Type record the text right of the first
\* description label, whatever later labels there are.
C9_FirstLabelWins ==
    \A s \in Positions :
        Processable(s) =>
            LET raw   == SheetAt(s).raw
                glass == LabelCells(raw, GlassLabels)
                desc  == LabelCells(raw, DescriptionLabels)
                g     == FirstCell(glass)
                d     == FirstCell(desc)
            IN  /\ (glass # {} /\ to_number(iat(raw, g[1], g[2] + 1).s) # None) =>
                       \A k \in 1..Len(RowsOf(s)) :
                           RowsOf(s)[k].Glass_QTY = to_number(iat(raw, g[1], g[2] + 1).s)
                /\ desc # {} =>
                       \A k \in 1..Len(TypeRowsOf(s)) :
                           TypeRowsOf(s)[k].Description = strip(iat(raw, d[1], d[2] + 1).s)

\* C16: the 1_Color of the Price record of the index pair (i, j) is the
\* normalised fill of the very cell its Price was read from, the worksheet
\* cell (main header + 2 + i, + 2 + j), also when a width or a height
\* occurs twice.
C16_ColorOfPriceCell ==
    \A s \in Positions :
        Processable(s) =>
            LET raw    == SheetAt(s).raw
                ws     == SheetAt(s).ws
                m      == find_main_matrix(raw)
                rows   == RowsOf(s)
                priced == PricedPairs(s)
            IN  \A ij \in priced :
                    rows[Rank(priced, ij) + 1].color[1] =
                        normalize_rgb(IF m.hr + 2 + ij[1] <= Len(ws) /\ m.hc + 2 + ij[2] <= Len(ws[1])
                                      THEN ws[m.hr + 2 + ij[1]][m.hc + 2 + ij[2]]
                                      ELSE NoFill)

\* C17: when process_file returns its summary every sheet is accounted for
\* exactly once, by one entry of skipped_sheets and no record, or by one Type
\* record and no entry; processed_sheets + |skipped_sheets| is the number
\* of sheets, processed_sheets the number of Type records and total_records
\* the number of Price records.
C17_EverySheetAccounted ==
    response.status = "success" =>
        /\ \A s \in Positions :
              \/ /\ Len(SkipsOf(s)) = 1
                 /\ TypeRowsOf(s) = <<>>
                 /\ RowsOf(s) = <<>>
              \/ /\ Len(TypeRowsOf(s)) = 1
                 /\ SkipsOf(s) = <<>>
        /\ response.processed_sheets + Len(response.skipped_sheets) = Len(sheet_ids)
        /\ response.processed_sheets = Len(type_rows)
        /\ response.total_records = Len(price_rows)
        /\ \A k \in 1..Len(price_rows) : \E s \in Positions : IsRowOf(price_rows[k], s)

\* a summary for a workbook of one skipped sheet and one processed sheet
\* with Price records
C17_Witness ==
    /\ response.status = "success"
    /\ Len(sheet_ids) = 2
    /\ response.processed_sheets = 1
    /\ Len(response.skipped_sheets) = 1
    /\ response.total_records > 1

(***************************************************************************)
(* read_color_matrix_with_thickness_row on its own (specification          *)
(* SpecOffset): the worksheet is white but for one painted block, one cell *)
(* of which may carry an excluded colour.                                  *)
(***************************************************************************)
WsSize == 4

MaxDim == 2

\* where the thickness header row and the main header column may lie
HeaderPositions == {0, 1}

Blocks ==
    {b \in [r1 : 1..WsSize, r2 : 1..WsSize, c1 : 1..WsSize, c2 : 1..WsSize] :
        b.r1 <= b.r2 /\ b.c1 <= b.c2}

NoHole == <<0, 0>>

BlockWs(b, hole) ==
    Ws(WsSize, WsSize,
       [rc \in (b.r1..b.r2) \X (b.c1..b.c2) |-> IF rc = hole THEN F2 ELSE RED])

Dimension(n) == [i \in 1..n |-> IntNum(100 * i)]

OffsetCalls ==
    {[fn |-> "offset", ws |-> BlockWs(b, hole), hc_main |-> hc, hr_thick |-> hr,
      widths |-> Dimension(nw), heights |-> Dimension(nh)] :
        b \in Blocks, hole \in {NoHole} \cup ((1..WsSize) \X (1..WsSize)),
        hc \in HeaderPositions, hr \in HeaderPositions,
        nw \in 1..MaxDim, nh \in 1..MaxDim}

InitOffset ==
    /\ sheet_ids = <<>>
    /\ pc = "call"
    /\ upload_file = "absent" /\ price_file = "absent" /\ type_file = "absent"
    /\ scan_i = 1 /\ max_matrices = INITIAL_MAX_MATRICES /\ all_sheet_matrices = <<>>
    /\ proc_i = 1 /\ price_rows = <<>> /\ type_rows = <<>>
    /\ processed_sheets = 0 /\ skipped_sheets = <<>>
    /\ response = NoResponse /\ cleanup_task = "none"
    /\ call \in OffsetCalls
    /\ result = NoCall
    /\ jobs = NoJobs /\ uploads = {}

\* one call of read_color_matrix_with_thickness_row
ApplyOffset ==
    /\ call.fn = "offset"
    /\ result = NoCall
    /\ result' = [fn |-> "offset",
                  best_offset |-> best_offset(call.ws, call.hc_main, call.hr_thick,
                                              call.widths, call.heights),
                  best_colors |-> read_color_matrix_with_thickness_row(
                                      call.ws, call.hc_main, call.hr_thick,
                                      call.widths, call.heights),
                  cells |-> cells_fetched(call.ws, call.hc_main, call.hr_thick,
                                          call.widths, call.heights)]
    /\ UNCHANGED <<mainVars, call, jobVars>>

NextOffset == ApplyOffset

SpecOffset == InitOffset /\ [][NextOffset]_vars

\* the colour of the worksheet cell (r, c), "FFFFFF" outside the sheet
SampleColor(r, c) ==
    IF r <= Len(call.ws) /\ c <= Len(call.ws[1])
    THEN normalize_rgb(call.ws[r][c]) ELSE FFFFFF

\* the sample of the candidate (ro, co): the first (up to) 2 x 2 cells
Sample(ro, co) ==
    {<<call.hr_thick + ro + i, call.hc_main + co + j>> :
        i \in 0..((IF Len(call.heights) < 2 THEN Len(call.heights) ELSE 2) - 1),
        j \in 0..((IF Len(call.widths) < 2 THEN Len(call.widths) ELSE 2) - 1)}

SampleCount(ro, co) ==
    Cardinality({rc \in Sample(ro, co) : SampleColor(rc[1], rc[2]) # FFFFFF})

Candidates == (1..3) \X (1..3)

IsBest(cand) ==
    \A o \in Candidates : SampleCount(o[1], o[2]) <= SampleCount(cand[1], cand[2])

\* C10: the offset chosen among the 9 candidates has the highest count of
\* sample colours other than "FFFFFF" (cells outside the sheet count as
\* "FFFFFF"); among the candidates with that count it has the smallest
\* rowOffset, then the smallest colOffset; when every count is 0 it is (1,1).
C10_BestOffsetChosen ==
    result.fn = "offset" =>
        /\ result.best_offset \in Candidates
        /\ IsBest(result.best_offset)
        /\ \A o \in Candidates :
              IsBest(o) =>
                  \/ result.best_offset[1] < o[1]
                  \/ result.best_offset[1] = o[1] /\ result.best_offset[2] <= o[2]
        /\ (\A o \in Candidates : SampleCount(o[1], o[2]) = 0) =>
               result.best_offset = <<1, 1>>

\* a call where two candidates share the highest count, 2 or more, the
\* default (1,1) counts less, and part of a sample lies outside the sheet
C10_Witness ==
    /\ result.fn = "offset"
    /\ SampleCount(result.best_offset[1], result.best_offset[2]) >= 2
    /\ \E o \in Candidates : o # result.best_offset /\ IsBest(o)
    /\ ~IsBest(<<1, 1>>)
    /\ \E o \in Candidates : \E rc \in Sample(o[1], o[2]) : rc[1] > Len(call.ws)

\* C15: under the offset (ro, co) chosen, the colour of the index pair
\* (i, j) is the normalised fill of the cell ro+i rows below and co+j
\* columns right of the cell (thickness header row, Main header column),
\* header and fill lookup counted alike: no cell of the thickness header's
\* own row or of the Main header's own column is sampled or read.
C15_OffsetFromHeaderCell ==
    result.fn = "offset" =>
        LET hdr_row == call.hr_thick + 1
            hdr_col == call.hc_main + 1
            ro      == result.best_offset[1]
            co      == result.best_offset[2]
        IN  /\ \A i \in 1..Len(call.heights), j \in 1..Len(call.widths) :
                  result.best_colors[<<call.heights[i], call.widths[j]>>] =
                      SampleColor(hdr_row + ro + (i - 1), hdr_col + co + (j - 1))
            /\ \A xy \in result.cells : xy[1] # hdr_row /\ xy[2] # hdr_col

(***************************************************************************)
(* normalize_rgb on its own (specification SpecFill): every fill over a    *)
(* pool of pattern kinds and of rgb strings of length 0, 3, 6 and 8, in    *)
(* upper and lower case.                                                   *)
(***************************************************************************)
PatternKinds == {"none", "solid", "gray125", "darkGrid"}

RgbPool ==
    { <<>>,
      TRANSPARENT,
      F2F2F2,
      <<"f", "2", "f", "2", "f", "2">>,
      <<"F", "F", "F", "2", "F", "2", "F", "2">>,
      <<"0", "0", "f", "2", "f", "2", "f", "2">>,
      <<"F", "F", "F", "F", "0", "0", "0", "0">>,
      <<"0", "0", "f", "f", "0", "0">>,
      <<"0", "0", "0", "0", "0", "0">>,
      <<"F", "F", "F", "F", "F", "F", "F", "F">>,
      <<"F", "F", "F">> }

Fills == {NoFill} \cup {Fill(pt, fg, bg) : pt \in PatternKinds, fg \in RgbPool, bg \in RgbPool}

InitFill ==
    /\ sheet_ids = <<>>
    /\ pc = "call"
    /\ upload_file = "absent" /\ price_file = "absent" /\ type_file = "absent"
    /\ scan_i = 1 /\ max_matrices = INITIAL_MAX_MATRICES /\ all_sheet_matrices = <<>>
    /\ proc_i = 1 /\ price_rows = <<>> /\ type_rows = <<>>
    /\ processed_sheets = 0 /\ skipped_sheets = <<>>
    /\ response = NoResponse /\ cleanup_task = "none"
    /\ call \in {[fn |-> "normalize_rgb", fill |-> f] : f \in Fills}
    /\ result = NoCall
    /\ jobs = NoJobs /\ uploads = {}

\* one call of normalize_rgb
ApplyNormalize ==
    /\ call.fn = "normalize_rgb"
    /\ result = NoCall
    /\ result' = [fn |-> "normalize_rgb", value |-> normalize_rgb(call.fill)]
    /\ UNCHANGED <<mainVars, call, jobVars>>

NextFill == ApplyNormalize

SpecFill == InitFill /\ [][NextFill]_vars

\* the six-digit colour an rgb string stands for, <<>> when it stands for none
Rgb6(rgb) ==
    IF Len(rgb) = 8 THEN upper(SubSeq(rgb, 3, 8))
    ELSE IF Len(rgb) = 6 THEN upper(rgb)
    ELSE <<>>

\* the resolved colour of a fill: the foreground's, else the background's
Resolved(fill) == IF Rgb6(fill.fgRgb) # <<>> THEN Rgb6(fill.fgRgb) ELSE Rgb6(fill.bgRgb)

\* C11: normalize_rgb returns "FFFFFF" for every fill whose foreground is
\* "00000000", whatever the background, and for every fill whose resolved
\* colour is "F2F2F2"; it never returns "F2F2F2" or "00000000".
C11_ExcludedColors ==
    result.fn = "normalize_rgb" =>
        /\ call.fill.fgRgb = TRANSPARENT => result.value = FFFFFF
        /\ Resolved(call.fill) = F2F2F2 => result.value = FFFFFF
        /\ result.value \notin {F2F2F2, TRANSPARENT}

\* a solid fill with the transparent foreground over a red background
C11_Witness ==
    /\ result.fn = "normalize_rgb"
    /\ call.fill.patternType = "solid"
    /\ call.fill.fgRgb = TRANSPARENT
    /\ Rgb6(call.fill.bgRgb) = <<"F", "F", "0", "0", "0", "0">>
    /\ result.value = FFFFFF

\* C12: normalize_rgb returns "FFFFFF" for every fill that is absent, has no
\* pattern kind or has a pattern kind other than solid, whatever its
\* foreground and background.
C12_NonSolidIsWhite ==
    result.fn = "normalize_rgb" =>
        ((~call.fill.present \/ call.fill.patternType # "solid") => result.value = FFFFFF)

\* a gray125 fill with a red foreground
C12_Witness ==
    /\ result.fn = "normalize_rgb"
    /\ call.fill.present
    /\ call.fill.patternType = "gray125"
    /\ Resolved(call.fill) = <<"F", "F", "0", "0", "0", "0">>
    /\ result.value = FFFFFF

(***************************************************************************)
(* Concurrent /api/process requests (specification SpecJobs).  Each        *)
(* request is a job of its own; process_file is the span between the       *)
(* job's ProcessBegin and ProcessEnd, and requests interleave at every     *)
(* step (several workers).  uuid.uuid4() gives a job an id no other job    *)
(* has.                                                                    *)
(***************************************************************************)
MaxJobs == 2

JobIds == 1..MaxJobs

Filenames == {"a.xlsx", "b.xlsx"}

NoTask == [state |-> "none", file_path |-> <<>>]

NoJob == [pc |-> "idle", job_id |-> 0, filename |-> "", upload_path |-> <<>>, task |-> NoTask]

\* upload_path without the job id
upload_path_unprefixed(job_id, filename) == <<"uploads", 0, filename>>

\* UPLOAD_DIR / f"{job_id}_{file.filename}"
upload_path(job_id, filename) == <<"uploads", job_id, filename>>

InitJobs ==
    /\ sheet_ids = <<>>
    /\ pc = "call"
    /\ upload_file = "absent" /\ price_file = "absent" /\ type_file = "absent"
    /\ scan_i = 1 /\ max_matrices = INITIAL_MAX_MATRICES /\ all_sheet_matrices = <<>>
    /\ proc_i = 1 /\ price_rows = <<>> /\ type_rows = <<>>
    /\ processed_sheets = 0 /\ skipped_sheets = <<>>
    /\ response = NoResponse /\ cleanup_task = "none"
    /\ call = NoCall /\ result = NoCall
    /\ jobs = [j \in 1..MaxJobs |-> NoJob]
    /\ uploads = {}

\* process_excel: job_id = str(uuid.uuid4()) and upload_path
JobReceive(j) ==
    /\ jobs[j].pc = "idle"
    /\ \E id \in JobIds \ {jobs[k].job_id : k \in 1..MaxJobs}, name \in Filenames :
          jobs' = [jobs EXCEPT ![j] = [@ EXCEPT !.pc = "save", !.job_id = id,
                                                 !.filename = name,
                                                 !.upload_path = upload_path(id, name)]]
    /\ UNCHANGED <<mainVars, callVars, uploads>>

\* process_excel: "Save uploaded file"; a copy that raises may leave the file
JobSaveUpload(j) ==
    /\ jobs[j].pc = "save"
    /\ \E ok \in BOOLEAN :
          IF ok
          THEN /\ uploads' = uploads \cup {jobs[j].upload_path}
               /\ jobs' = [jobs EXCEPT ![j].pc = "call"]
          ELSE /\ uploads' \in {uploads, uploads \cup {jobs[j].upload_path}}
               /\ jobs' = [jobs EXCEPT ![j].pc = "except"]
    /\ UNCHANGED <<mainVars, callVars>>

\* extractor.process_file(str(upload_path), ...) opens the upload
JobProcessBegin(j) ==
    /\ jobs[j].pc = "call"
    /\ jobs' = [jobs EXCEPT ![j].pc = "reading"]
    /\ UNCHANGED <<mainVars, callVars, uploads>>

\* process_file returns its summary, or raises "Processing failed"
JobProcessEnd(j) ==
    /\ jobs[j].pc = "reading"
    /\ \E ok \in BOOLEAN :
          jobs' = [jobs EXCEPT ![j].pc = IF ok THEN "returned" ELSE "except"]
    /\ UNCHANGED <<mainVars, callVars, uploads>>

\* background_tasks.add_task(cleanup_files, upload_path, delay_hours=1) and
\* the response; the task starts its sleep once the response is sent
JobRespond(j) ==
    /\ jobs[j].pc = "returned"
    /\ jobs' = [jobs EXCEPT ![j] = [@ EXCEPT !.pc = "responded",
                                             !.task = [state |-> "sleeping",
                                                       file_path |-> jobs[j].upload_path]]]
    /\ UNCHANGED <<mainVars, callVars, uploads>>

\* process_excel: "Cleanup on error"
JobHandleError(j) ==
    /\ jobs[j].pc = "except"
    /\ uploads' = uploads \ {jobs[j].upload_path}
    /\ jobs' = [jobs EXCEPT ![j].pc = "failed"]
    /\ UNCHANGED <<mainVars, callVars>>

\* cleanup_files(file_path) after its sleep
JobCleanup(j) ==
    /\ jobs[j].task.state = "sleeping"
    /\ uploads' = uploads \ {jobs[j].task.file_path}
    /\ jobs' = [jobs EXCEPT ![j].task.state = "done"]
    /\ UNCHANGED <<mainVars, callVars>>

NextJobs ==
    \E j \in 1..MaxJobs :
        \/ JobReceive(j)
        \/ JobSaveUpload(j)
        \/ JobProcessBegin(j)
        \/ JobProcessEnd(j)
        \/ JobRespond(j)
        \/ JobHandleError(j)
        \/ JobCleanup(j)

SpecJobs == InitJobs /\ [][NextJobs]_vars

\* the jobs that are inside process_file
Reading == {j \in DOMAIN jobs : jobs[j].pc = "reading"}

\* the files a step removes from UPLOAD_DIR
Deleted == uploads \ uploads'

\* C13: the cleanup task of a job exists only once the job's process_file has
\* returned and names the job's own upload file; a step that deletes an
\* upload file is a step of the job that owns it, and no upload file is
\* deleted while process_file of any job is reading it.
C13_CleanupNeverRaces ==
    /\ [](\A j \in DOMAIN jobs :
             jobs[j].task.state # "none" =>
                 /\ jobs[j].pc = "responded"
                 /\ jobs[j].task.file_path = <<"uploads", jobs[j].job_id, jobs[j].filename>>)
    /\ [][\A path \in Deleted :
             /\ \E j \in DOMAIN jobs :
                   /\ jobs'[j] # jobs[j]
                   /\ path = <<"uploads", jobs[j].job_id, jobs[j].filename>>
             /\ \A j \in Reading : path # jobs[j].upload_path]_vars

\* the cleanup task of one job has deleted its upload while another job,
\* given a file of the same name, is inside process_file with its upload
\* still there
C13_Witness ==
    \E j \in DOMAIN jobs, k \in DOMAIN jobs :
        /\ jobs[j].task.state = "done"
        /\ jobs[j].task.file_path \notin uploads
        /\ jobs[k].pc = "reading"
        /\ jobs[k].filename = jobs[j].filename
        /\ jobs[k].upload_path \in uploads

(***************************************************************************)
(* to_number on its own (specification SpecNumber): every string of up to  *)
(* MaxLen characters over NumberChars, and some longer ones, among them    *)
(* the integers around 2^53.                                               *)
(***************************************************************************)
MaxLen == 4

NumberChars == {"0", "1", "2", ",", ".", "-", " ", "a"}

ShortStrings == UNION {[1..n -> NumberChars] : n \in 0..MaxLen}

LongStrings ==
    { <<" ", "1", ",", "2", "3", "4", " ">>,
      <<"1", ",", "2", "3", "4", ".", "5", "0">>,
      <<"9", ",", "0", "0", "7", ",", "1", "9", "9", ",", "2", "5", "4", ",", "7", "4", "0", ",", "9", "9", "2">>,
      <<" ", "9", ",", "0", "0", "7", ",", "1", "9", "9", ",", "2", "5", "4", ",", "7", "4", "0", ",", "9", "9", "3", " ">>,
      <<"9", "0", "0", "7", "1", "9", "9", "2", "5", "4", "7", "4", "0", "9", "9", "5">>,
      <<" ", " ", "1", "2", ",", "3", "4", "5", ",", "6", "7", "8", ",", "9", "0", "1", ",", "2", "3", "4", ",", "5", "6", "7", ",", "8", "9", "0">>,
      <<"-", "9", ",", "0", "0", "7", ",", "1", "9", "9", ",", "2", "5", "4", ",", "7", "4", "0", ",", "9", "9", "3">>,
      <<"1", ",", "0", "0", "0", ",", "0", "0", "0">>,
      <<"a", "b", "c">>,
      <<"1", "-", "2">>,
      <<" ", "0", "0", "7", " ">> }

InitNumber ==
    /\ sheet_ids = <<>>
    /\ pc = "call"
    /\ upload_file = "absent" /\ price_file = "absent" /\ type_file = "absent"
    /\ scan_i = 1 /\ max_matrices = INITIAL_MAX_MATRICES /\ all_sheet_matrices = <<>>
    /\ proc_i = 1 /\ price_rows = <<>> /\ type_rows = <<>>
    /\ processed_sheets = 0 /\ skipped_sheets = <<>>
    /\ response = NoResponse /\ cleanup_task = "none"
    /\ call \in {[fn |-> "to_number", val |-> s] : s \in ShortStrings \cup LongStrings}
    /\ result = NoCall
    /\ jobs = NoJobs /\ uploads = {}

\* one call of to_number
ApplyToNumber ==
    /\ call.fn = "to_number"
    /\ result = NoCall
    /\ result' = [fn |-> "to_number", value |-> to_number(call.val)]
    /\ UNCHANGED <<mainVars, call, jobVars>>

NextNumber == ApplyToNumber

SpecNumber == InitNumber /\ [][NextNumber]_vars

\* the input without everything but digits, '.' and '-'
Cleaned(s) == LET Kept(c) == c \in DigitSet \cup {".", "-"} IN SelectSeq(s, Kept)

\* what float() accepts of such a string: an optional sign, digits, at
\* most one point, at least one digit
Parseable(c) ==
    LET body == IF c # <<>> /\ c[1] = "-" THEN Tail(c) ELSE c
    IN  /\ \A i \in 1..Len(body) : body[i] # "-"
        /\ Cardinality({i \in 1..Len(body) : body[i] = "."}) <= 1
        /\ \E i \in 1..Len(body) : body[i] \in DigitSet

\* a digit string with thousands separators and surrounding whitespace
IsGrouped(s) ==
    LET core == strip(s)
    IN  /\ core # <<>>
        /\ \A i \in 1..Len(core) : core[i] \in DigitSet \cup {","}
        /\ core[1] \in DigitSet /\ core[Len(core)] \in DigitSet

\* the integer its digits denote
Denoted(s) == Canonical(SelectSeq(s, IsDigit))

\* 2^53 = 9007199254740992
TwoTo53 == <<"9", "0", "0", "7", "1", "9", "9", "2", "5", "4", "7", "4", "0", "9", "9", "2">>

IsNumberOrNone(v) ==
    \/ v = None
    \/ /\ v.k = "num" /\ v.neg \in BOOLEAN
       /\ v.ip # <<>> /\ \A i \in 1..Len(v.ip) : v.ip[i] \in DigitSet
       /\ \A i \in 1..Len(v.fp) : v.fp[i] \in DigitSet

\* C14 as stated: to_number returns a number or None for every input; None
\* when the cleaned input is empty, "-" or "." or does not parse; and for a
\* digit string with thousands separators and surrounding whitespace the
\* integer its digits denote.
C14_ToNumber ==
    result.fn = "to_number" =>
        /\ IsNumberOrNone(result.value)
        /\ (Cleaned(call.val) \in {<<>>, <<"-">>, <<".">>} \/ ~Parseable(Cleaned(call.val)))
               => result.value = None
        /\ IsGrouped(call.val) =>
               result.value = [k |-> "num", neg |-> FALSE, ip |-> Denoted(call.val), fp |-> <<>>]

\* C14 as amended: the same, the integer being returned as denoted when it
\* is at most 2^53.
C14_ToNumberUpTo2Pow53 ==
    result.fn = "to_number" =>
        /\ IsNumberOrNone(result.value)
        /\ (Cleaned(call.val) \in {<<>>, <<"-">>, <<".">>} \/ ~Parseable(Cleaned(call.val)))
               => result.value = None
        /\ (IsGrouped(call.val) /\ ~DecLess(TwoTo53, Denoted(call.val))) =>
               result.value = [k |-> "num", neg |-> FALSE, ip |-> Denoted(call.val), fp |-> <<>>]

\* 2^53 itself, written with separators, comes back digit for digit
C14_Witness ==
    /\ result.fn = "to_number"
    /\ IsGrouped(call.val)
    /\ \E i \in 1..Len(call.val) : call.val[i] = ","
    /\ Denoted(call.val) = TwoTo53
    /\ result.value.ip = TwoTo53

====
